---- MODULE Spec2Model ----
(***************************************************************************)
(* A model of pinecone_manager.py (class PineconeManager, the index        *)
(* client) and of pinecone_index_migration/pinecone_migration.py (migrate, *)
(* the one-shot copy of a source index into a destination index).          *)
(*                                                                         *)
(* The remote vector-index service is the environment.  Each credential    *)
(* ("src", "dst") sees one index of interest, the one its manager is       *)
(* configured with; the two are distinct indexes.  Every remote call is    *)
(* written to the log `calls`, with whether it succeeded.  A remote call   *)
(* may fail at any time; inside an operation the parameter f names the     *)
(* position (1, 2, ...) of the remote call that fails, 0 for none.         *)
(***************************************************************************)
EXTENDS Integers, Sequences, FiniteSets, TLC

VARIABLES
    svc,            \* svc[c]: the index configured for credential c, as the service holds it
    index,          \* index[c]: PineconeManager.index is set (a cached connection)
    calls,          \* the log of remote calls, in the order they were issued
    canList,        \* the source index handle has a list() method
    pc,             \* the statement migrate is at
    exitCode,       \* the process exit status, None while running
    source_dim,     \* migrate's local source_dim
    source_metric,  \* migrate's local source_metric
    source_stats,   \* migrate's local source_stats
    namespaces,     \* migrate's local namespaces
    nsIdx,          \* position in namespaces of the for loop's ns
    pageIdx,        \* pages the listing generator of ns has yielded so far
    id_page,        \* migrate's local id_page
    vectors_map,    \* migrate's local vectors_map
    batch_data,     \* migrate's local batch_data
    total_migrated, \* migrate's local total_migrated
    caught,         \* the exceptions the transfer loop has handled: <<ns, place, class>>
    faults,         \* the failures the environment has injected so far
    last,           \* the outcome of the last client operation applied directly
    prev            \* what the run of migrate before this one left (ran: there was one)

vars == <<svc, index, calls, canList, pc, exitCode, source_dim, source_metric,
          source_stats, namespaces, nsIdx, pageIdx, id_page, vectors_map, batch_data,
          total_migrated, caught, faults, last, prev>>

-----------------------------------------------------------------------------
(* Bounds of the model *)

\* ids a namespace of the source holds at most (ids are 1..MaxIds)
MaxIds == 3
\* ids the remote listing returns per page
PageSize == 2
\* times the readiness poll may see the index still provisioning
MaxPolls == 1
\* failures the environment injects in one run (a call raising, a degraded
\* response, a malformed record)
MaxFaults == 2
\* operations applied to a client directly
MaxOps == 2
\* largest batch_size handed to upsert_data directly
MaxBatch == 3

(* Program constants *)

\* create_index(dimension=1536, metric='cosine', ...)
DefaultDimension == 1536
DefaultMetric == "cosine"

-----------------------------------------------------------------------------
(* Values *)

None == "None"
Creds == {"src", "dst"}
Name(c) == IF c = "src" THEN "source-index" ELSE "dest-index"

Dims == {768, DefaultDimension}
Metrics == {DefaultMetric, "euclidean"}

\* the namespaces an index may hold: the default one and a named one
NsNames == {"", "a"}

\* metadata of a stored record: absent, or a mapping
NoMeta == "absent"
EmptyMap == "{}"
SomeMeta == "{k: v}"

\* a value that may be Python's None: PyNone, or Some(v)
PyNone == <<>>
Some(v) == <<v>>

Min(a, b) == IF a <= b THEN a ELSE b

\* a variant of Ceil that rounds down
Ceil_RoundsDown(n, d) == n \div d

\* math.ceil(n / d) for n >= 0, d >= 1
Ceil(n, d) == (n + d - 1) \div d

\* vectors[start:end] with Python's 0-based, end-exclusive slice
Slice(s, start, end) == SubSeq(s, start + 1, Min(end, Len(s)))

\* the record the source holds under id i in namespace ns
SrcRecord(dim, ns, i) ==
    [id |-> i, values |-> [len |-> dim, of |-> <<ns, i>>],
     metadata |-> IF i % 2 = 0 THEN NoMeta ELSE SomeMeta]

EmptyData == [ns \in NsNames |-> {}]

AbsentIndex == [exists |-> FALSE, dimension |-> 0, metric |-> None,
                ready |-> FALSE, data |-> EmptyData]

-----------------------------------------------------------------------------
(* The remote service, as spec.md sections 3 and 6 describe it *)

\* create-index: refused when the name is taken; a new index is empty and
\* still provisioning
SvcCreateOk(s) == ~s.exists
SvcCreate(s, dimension, metric) ==
    [exists |-> TRUE, dimension |-> dimension, metric |-> metric,
     ready |-> FALSE, data |-> EmptyData]

\* upsert: refused when the index is gone or a vector's length is not the
\* index's dimension; otherwise insert-or-overwrite by id
SvcUpsertOk(s, records) ==
    /\ s.exists
    /\ \A k \in DOMAIN records : records[k].values.len = s.dimension
SvcUpsert(s, records, ns) ==
    LET new == {records[k] : k \in DOMAIN records}
        \* a later record of the batch overwrites an earlier one with its id
        win == {records[k] : k \in {j \in DOMAIN records :
                    \A m \in DOMAIN records : records[m].id = records[j].id => m <= j}}
        kept == {r \in s.data[ns] : \A n \in new : n.id # r.id}
    IN  [s EXCEPT !.data[ns] = kept \cup win]

\* the ids of namespace ns in the order the listing returns them
RECURSIVE SortedIds(_)
SortedIds(S) ==
    IF S = {} THEN <<>>
    ELSE LET m == CHOOSE x \in S : \A y \in S : x <= y
         IN  <<m>> \o SortedIds(S \ {m})
ListedIds(s, ns) == SortedIds({r.id : r \in s.data[ns]})

\* fetch(ids, namespace) -> {id -> {values, metadata}}, here in id order
FetchResponse(s, ids, ns) ==
    LET have == {r \in s.data[ns] : \E k \in DOMAIN ids : ids[k] = r.id}
        order == SortedIds({r.id : r \in have})
    IN  [k \in DOMAIN order |-> CHOOSE r \in have : r.id = order[k]]

RECURSIVE SumCounts(_, _)
SumCounts(s, N) ==
    IF N = {} THEN 0
    ELSE LET ns == CHOOSE x \in N : TRUE
         IN  Cardinality(s.data[ns]) + SumCounts(s, N \ {ns})

\* the orders a mapping with key set S may be in
RECURSIVE Orders(_)
Orders(S) ==
    IF S = {} THEN {<<>>}
    ELSE UNION {{<<x>> \o t : t \in Orders(S \ {x})} : x \in S}

\* describe-stats: the per-namespace counts, keyed by the namespaces that hold
\* records (and possibly some that hold none), in some order, and the total;
\* a backend may leave the mapping empty when only the default namespace is
\* populated
StatsResponses(s) ==
    LET used == {ns \in NsNames : s.data[ns] # {}}
        total == SumCounts(s, NsNames)
        keys == {N \in SUBSET NsNames : used \subseteq N /\ N # {}}
    IN  {[namespaces |-> o, total_vector_count |-> total] :
            o \in UNION {Orders(N) : N \in keys}}
        \cup (IF used \subseteq {""}
              THEN {[namespaces |-> <<>>, total_vector_count |-> total]}
              ELSE {})

-----------------------------------------------------------------------------
(* PineconeManager.  An operation takes the world w it runs in and returns *)
(* Out(w', raised, ret, n): the world after it, whether it raised, what it *)
(* returned, and how many remote calls it issued.                          *)

\* what the log keeps of a call besides its name: the namespace and records
\* it carries, the dimension and metric it asks for or is answered with, and
\* the ready flag it is answered with
NoArgs == [ns |-> None, records |-> <<>>, dimension |-> 0, metric |-> None,
           ready |-> FALSE]
CreateArgs(dimension, metric) ==
    [NoArgs EXCEPT !.dimension = dimension, !.metric = metric]
UpsertArgs(namespace, batch) ==
    [NoArgs EXCEPT !.ns = namespace, !.records = batch]
DescribeArgs(s) ==
    [NoArgs EXCEPT !.dimension = s.dimension, !.metric = s.metric,
                   !.ready = s.ready]

Out(w, raised, ret, n) == [w |-> w, raised |-> raised, ret |-> ret, n |-> n]
\* the operation raises after n remote calls
Raise(w, n) == Out(w, TRUE, None, n)
\* the operation returns ret after n remote calls
Return(w, ret, n) == Out(w, FALSE, ret, n)
\* r, after n more remote calls before it
Plus(r, n) == [r EXCEPT !.n = @ + n]

\* K applied to the value of v, v evaluated once
Bind(v, K(_)) == CHOOSE out \in {K(x) : x \in {v}} : TRUE

\* one remote call, logged
Remote(w, op, args, ok) ==
    [w EXCEPT !.calls = Append(@, [cred |-> w.cred, op |-> op, ok |-> ok,
                                   ns |-> args.ns, records |-> args.records,
                                   dimension |-> args.dimension,
                                   metric |-> args.metric,
                                   ready |-> args.ready])]

\* self.index = self.pc.Index(self.index_name)
Connected(w) == [w EXCEPT !.index = TRUE]

\* self.pc.list_indexes(): the descriptors of the account's indexes
\* (here: of the configured one, when it exists)
PcListIndexes(w) == IF w.svc.exists THEN {[name |-> Name(w.cred)]} ELSE {}

list_indexes(w, f) ==
    IF f = 1 THEN Raise(Remote(w, "list_indexes", NoArgs, FALSE), 1)
    ELSE Return(Remote(w, "list_indexes", NoArgs, TRUE),
                {idx.name : idx \in PcListIndexes(w)}, 1)

\* `name in self.pc.list_indexes()`: the list's elements are index
\* descriptors (list_indexes reads idx['name'] from them), and a str is
\* equal to none of them
StrEqualsDescriptor(name, idx) == FALSE
NameInRawList(name, raw) == \E idx \in raw : StrEqualsDescriptor(name, idx)

\* self.pc.delete_index(self.index_name); self.index = None
DeleteTail(w, f) ==
    IF f # 1 /\ w.svc.exists
    THEN Return([Remote(w, "delete_index", NoArgs, TRUE)
                    EXCEPT !.svc = AbsentIndex, !.index = FALSE], None, 2)
    ELSE Raise(Remote(w, "delete_index", NoArgs, FALSE), 2)

delete_index(w, f) ==
    IF f = 1 THEN Raise(Remote(w, "list_indexes", NoArgs, FALSE), 1)
    ELSE IF NameInRawList(Name(w.cred), PcListIndexes(w))
    THEN Bind(Remote(w, "list_indexes", NoArgs, TRUE),
              LAMBDA w1 : DeleteTail(w1, f - 1))
    ELSE Return(Remote(w, "list_indexes", NoArgs, TRUE), None, 1)

\* the tail of create_index, after n remote calls:
\* self.pc.create_index(...); self.index = self.pc.Index(self.index_name)
CreateTail(w, dimension, metric, f, n) ==
    IF f # 1 /\ SvcCreateOk(w.svc)
    THEN Return(Connected([Remote(w, "create_index", CreateArgs(dimension, metric), TRUE)
                              EXCEPT !.svc = SvcCreate(w.svc, dimension, metric)]),
                None, n + 1)
    ELSE Raise(Remote(w, "create_index", CreateArgs(dimension, metric), FALSE), n + 1)

\* create_index once delete_index has returned r2
CreateAfterDelete(r2, dimension, metric, f) ==
    IF r2.raised THEN Raise(r2.w, 1 + r2.n)
    ELSE CreateTail(r2.w, dimension, metric, f - 1 - r2.n, 1 + r2.n)

\* create_index once list_indexes has returned r1
CreateAfterList(r1, dimension, metric, replace_existing, f) ==
    IF r1.raised THEN Raise(r1.w, 1)
    ELSE IF Name(r1.w.cred) \in r1.ret
    THEN IF replace_existing
         THEN Bind(delete_index(r1.w, f - 1),
                   LAMBDA r2 : CreateAfterDelete(r2, dimension, metric, f))
         ELSE Return(Connected(r1.w), None, 1)
    ELSE CreateTail(r1.w, dimension, metric, f - 1, 1)

create_index(w, dimension, metric, replace_existing, f) ==
    Bind(list_indexes(w, f),
         LAMBDA r1 : CreateAfterList(r1, dimension, metric, replace_existing, f))

\* get_or_create_index once create_index has returned r2
GetAfterCreate(r2) ==
    IF r2.raised THEN Raise(r2.w, 1 + r2.n)
    ELSE Return(Connected(r2.w), TRUE, 1 + r2.n)

\* get_or_create_index once list_indexes has returned r1
GetAfterList(r1, f) ==
    IF r1.raised THEN Raise(r1.w, 1)
    ELSE IF Name(r1.w.cred) \in r1.ret
    THEN Return(Connected(r1.w), TRUE, 1)
    ELSE Bind(create_index(r1.w, DefaultDimension, DefaultMetric, FALSE, f - 1),
              LAMBDA r2 : GetAfterCreate(r2))

\* a variant of get_or_create_index that looks the index up on every call
get_or_create_index_NoCache(w, f) ==
    Bind(list_indexes(w, f), LAMBDA r1 : GetAfterList(r1, f))

get_or_create_index(w, f) ==
    IF w.index THEN Return(w, TRUE, 0)
    ELSE Bind(list_indexes(w, f), LAMBDA r1 : GetAfterList(r1, f))

\* a variant of StatsAfterGet without the try/except around the body
StatsAfterGet_Unwrapped(r1, stats, f) ==
    IF r1.raised THEN Raise(r1.w, r1.n)
    ELSE IF f - r1.n # 1
    THEN Return(Remote(r1.w, "describe_index_stats", NoArgs, TRUE),
                Some(stats), r1.n + 1)
    ELSE Raise(Remote(r1.w, "describe_index_stats", NoArgs, FALSE), r1.n + 1)

\* describe_index_stats once get_or_create_index has returned r1; stats is
\* the response the service gives when the call succeeds
StatsAfterGet(r1, stats, f) ==
    IF r1.raised THEN Return(r1.w, PyNone, r1.n)
    ELSE IF f - r1.n # 1
    THEN Return(Remote(r1.w, "describe_index_stats", NoArgs, TRUE),
                Some(stats), r1.n + 1)
    ELSE Return(Remote(r1.w, "describe_index_stats", NoArgs, FALSE),
                PyNone, r1.n + 1)

describe_index_stats(w, stats, f) ==
    Bind(get_or_create_index(w, f), LAMBDA r1 : StatsAfterGet(r1, stats, f))

\* a variant of UpsertBatches that goes on with the next batch after a failure
RECURSIVE UpsertBatches_SkipsFailed(_, _, _, _, _, _, _)
UpsertBatches_SkipsFailed(w, vectors, namespace, batch_size, i, num_batches, f) ==
    IF i >= num_batches THEN Return(w, None, 0)
    ELSE LET start_idx == i * batch_size
             end_idx == Min((i + 1) * batch_size, Len(vectors))
             batch == Slice(vectors, start_idx, end_idx)
             ok == f # 1 /\ SvcUpsertOk(w.svc, batch)
         IN  Bind([Remote(w, "upsert", UpsertArgs(namespace, batch), ok)
                     EXCEPT !.svc = IF ok THEN SvcUpsert(w.svc, batch, namespace)
                                    ELSE w.svc],
                  LAMBDA w1 : Plus(UpsertBatches_SkipsFailed(w1, vectors, namespace,
                                       batch_size, i + 1, num_batches, f - 1), 1))

\* the for loop of upsert_data from batch i on; f counts from this batch
RECURSIVE UpsertBatches(_, _, _, _, _, _, _)
UpsertBatches(w, vectors, namespace, batch_size, i, num_batches, f) ==
    IF i >= num_batches THEN Return(w, None, 0)
    ELSE LET start_idx == i * batch_size
             end_idx == Min((i + 1) * batch_size, Len(vectors))
             batch == Slice(vectors, start_idx, end_idx)
         IN  IF f # 1 /\ SvcUpsertOk(w.svc, batch)
             THEN Bind([Remote(w, "upsert", UpsertArgs(namespace, batch), TRUE)
                          EXCEPT !.svc = SvcUpsert(w.svc, batch, namespace)],
                       LAMBDA w1 : Plus(UpsertBatches(w1, vectors, namespace,
                                            batch_size, i + 1, num_batches, f - 1), 1))
             ELSE Return(Remote(w, "upsert", UpsertArgs(namespace, batch), FALSE),
                         None, 1)

\* upsert_data once get_or_create_index has returned r1; a batch_size of 0
\* raises ZeroDivisionError inside the try
UpsertAfterGet(r1, vectors, namespace, batch_size, f) ==
    IF r1.raised \/ batch_size = 0 THEN Return(r1.w, None, r1.n)
    ELSE Bind(UpsertBatches(r1.w, vectors, namespace, batch_size, 0,
                            Ceil(Len(vectors), batch_size), f - r1.n),
              LAMBDA r2 : Plus(r2, r1.n))

upsert_data(w, vectors, namespace, batch_size, f) ==
    IF vectors = <<>> THEN Return(w, None, 0)
    ELSE Bind(get_or_create_index(w, f),
              LAMBDA r1 : UpsertAfterGet(r1, vectors, namespace, batch_size, f))

\* query_index once the connection has been looked up with outcome r1
QueryAfterGet(r1, f) ==
    IF r1.raised THEN Return(r1.w, PyNone, r1.n)
    ELSE IF f - r1.n # 1
    THEN Return(Remote(r1.w, "query", NoArgs, TRUE), Some("matches"), r1.n + 1)
    ELSE Return(Remote(r1.w, "query", NoArgs, FALSE), PyNone, r1.n + 1)

query_index(w, f) ==
    Bind(IF ~w.index THEN get_or_create_index(w, f) ELSE Return(w, TRUE, 0),
         LAMBDA r1 : QueryAfterGet(r1, f))

\* has_client: self.openai_client is not None
create_embeddings(w, texts, has_client, f) ==
    IF texts = <<>> \/ ~has_client THEN Return(w, <<>>, 0)
    ELSE IF f = 1
    THEN Return([Remote([w EXCEPT !.cred = "openai"], "embeddings", NoArgs, FALSE)
                    EXCEPT !.cred = w.cred], <<>>, 1)
    ELSE Return([Remote([w EXCEPT !.cred = "openai"], "embeddings", NoArgs, TRUE)
                    EXCEPT !.cred = w.cred],
                [k \in DOMAIN texts |-> <<"embedding", texts[k]>>], 1)

-----------------------------------------------------------------------------
(* migrate(source_key, source_index_name, dest_key, dest_index_name) *)

ExcClasses == {"AttributeError", "Exception"}

\* a variant of World in which the environment is not switched to the
\* destination's credentials and index name
World_EnvNotSwitched(c) ==
    [cred |-> "src", svc |-> svc["src"], index |-> index["src"], calls |-> calls]

World(c) == [cred |-> c, svc |-> svc[c], index |-> index[c], calls |-> calls]

Commit(w) ==
    /\ svc' = [svc EXCEPT ![w.cred] = w.svc]
    /\ index' = [index EXCEPT ![w.cred] = w.index]
    /\ calls' = w.calls

\* sys.exit(1)
SysExit == pc' = "exited" /\ exitCode' = 1
\* an exception no handler of migrate catches ends the process with status 1
Uncaught == pc' = "uncaught" /\ exitCode' = 1
\* the completion report; migrate returns and the process ends with status 0
Report == pc' = "done" /\ exitCode' = 0
Goto(l) == pc' = l /\ UNCHANGED exitCode

\* the environment may inject a failure, and has injected one when the
\* operation issued a remote call at position f
MayFail(f) == f = 0 \/ faults < MaxFaults
Injected(f, n) == faults' = faults + (IF f >= 1 /\ f <= n THEN 1 ELSE 0)
MayRaise(out) == out = "ok" \/ faults < MaxFaults
Raised(out) == faults' = faults + (IF out = "ok" THEN 0 ELSE 1)

setup == <<source_dim, source_metric>>
loop == <<source_stats, namespaces, nsIdx, pageIdx, id_page, vectors_map, batch_data,
          total_migrated, caught>>

\* a direct call of the underlying client: self.pc.describe_index(name)
PcDescribeIndex(w, f) ==
    IF f # 1 /\ w.svc.exists
    THEN Return(Remote(w, "describe_index", DescribeArgs(w.svc), TRUE),
                [dimension |-> w.svc.dimension, metric |-> w.svc.metric,
                 ready |-> w.svc.ready], 1)
    ELSE Raise(Remote(w, "describe_index", NoArgs, FALSE), 1)

\* the describe_index calls of the readiness loop so far
Polls == Cardinality({k \in DOMAIN calls :
            calls[k].cred = "dst" /\ calls[k].op = "describe_index"})


ConnectSource ==
    /\ pc = "src_list"
    /\ \E f \in 0..1 :
         \E r \in {list_indexes(World("src"), f)} :
             /\ MayFail(f)
             /\ Injected(f, r.n)
             /\ Commit(r.w)
             /\ IF r.raised THEN Uncaught
                ELSE IF Name("src") \notin r.ret THEN SysExit
                ELSE Goto("src_describe")
    /\ UNCHANGED <<canList, setup, loop, last, prev>>

\* a variant of DescribeSource that goes on when the descriptor cannot be read
DescribeSource_GoesOn ==
    /\ pc = "src_describe"
    /\ \E f \in 0..1 :
         \E r \in {PcDescribeIndex(World("src"), f)} :
             /\ MayFail(f)
             /\ Injected(f, r.n)
             /\ Commit(r.w)
             /\ IF r.raised
                THEN Goto("src_connect") /\ UNCHANGED setup
                ELSE /\ source_dim' = r.ret.dimension
                     /\ source_metric' = r.ret.metric
                     /\ Goto("src_connect")
    /\ UNCHANGED <<canList, loop, last, prev>>

DescribeSource ==
    /\ pc = "src_describe"
    /\ \E f \in 0..1 :
         \E r \in {PcDescribeIndex(World("src"), f)} :
             /\ MayFail(f)
             /\ Injected(f, r.n)
             /\ Commit(r.w)
             /\ IF r.raised
                THEN SysExit /\ UNCHANGED setup
                ELSE /\ source_dim' = r.ret.dimension
                     /\ source_metric' = r.ret.metric
                     /\ Goto("src_connect")
    /\ UNCHANGED <<canList, loop, last, prev>>

GetSourceIndex ==
    /\ pc = "src_connect"
    /\ \E f \in 0..1 :
         \E r \in {get_or_create_index(World("src"), f)} :
             /\ MayFail(f)
             /\ Injected(f, r.n)
             /\ Commit(r.w)
             /\ IF r.raised THEN Uncaught ELSE Goto("dst_list")
    /\ UNCHANGED <<canList, setup, loop, last, prev>>

ConnectDest ==
    /\ pc = "dst_list"
    /\ \E f \in 0..1 :
         \E r \in {list_indexes(World("dst"), f)} :
             /\ MayFail(f)
             /\ Injected(f, r.n)
             /\ Commit(r.w)
             /\ IF r.raised THEN Uncaught
                ELSE IF Name("dst") \in r.ret THEN Goto("dst_describe")
                ELSE Goto("dst_create")
    /\ UNCHANGED <<canList, setup, loop, last, prev>>

VerifyDest ==
    /\ pc = "dst_describe"
    /\ \E f \in 0..1 :
         \E r \in {PcDescribeIndex(World("dst"), f)} :
             /\ MayFail(f)
             /\ Injected(f, r.n)
             /\ Commit(r.w)
             /\ IF r.raised THEN Goto("stats")
                ELSE IF r.ret.dimension # source_dim THEN SysExit
                ELSE Goto("stats")
    /\ UNCHANGED <<canList, setup, loop, last, prev>>

\* a variant of CreateDest that is not followed by the readiness loop
CreateDest_NoWait ==
    /\ pc = "dst_create"
    /\ \E f \in 0..2 :
         \E r \in {create_index(World("dst"), source_dim, source_metric, FALSE, f)} :
             /\ MayFail(f)
             /\ Injected(f, r.n)
             /\ Commit(r.w)
             /\ IF r.raised THEN Uncaught ELSE Goto("stats")
    /\ UNCHANGED <<canList, setup, loop, last, prev>>

CreateDest ==
    /\ pc = "dst_create"
    /\ \E f \in 0..2 :
         \E r \in {create_index(World("dst"), source_dim, source_metric, FALSE, f)} :
             /\ MayFail(f)
             /\ Injected(f, r.n)
             /\ Commit(r.w)
             /\ IF r.raised THEN Uncaught ELSE Goto("wait_ready")
    /\ UNCHANGED <<canList, setup, loop, last, prev>>

\* a variant of WaitReady that polls once and goes on whatever the flag says
WaitReady_PollsOnce ==
    /\ pc = "wait_ready"
    /\ \E f \in 0..1 :
         \E r \in {PcDescribeIndex(World("dst"), f)} :
             /\ MayFail(f)
             /\ Injected(f, r.n)
             /\ Commit(r.w)
             /\ IF r.raised THEN Uncaught ELSE Goto("stats")
    /\ UNCHANGED <<canList, setup, loop, last, prev>>

WaitReady ==
    /\ pc = "wait_ready"
    /\ \E f \in 0..1 :
         \E r \in {PcDescribeIndex(World("dst"), f)} :
             /\ IF r.raised THEN TRUE ELSE r.ret.ready \/ Polls < MaxPolls
             /\ MayFail(f)
             /\ Injected(f, r.n)
             /\ Commit(r.w)
             /\ IF r.raised THEN Uncaught
                ELSE IF r.ret.ready THEN Goto("stats")
                ELSE Goto("wait_ready")
    /\ UNCHANGED <<canList, setup, loop, last, prev>>

\* the service finishes provisioning a new index
Provision ==
    /\ \E c \in Creds :
         /\ svc[c].exists /\ ~svc[c].ready
         /\ svc' = [svc EXCEPT ![c].ready = TRUE]
    /\ UNCHANGED <<index, calls, canList, pc, exitCode, setup, loop, faults, last, prev>>

\* list(source_stats.namespaces.keys()) if source_stats and
\* source_stats.namespaces else []
StatsKeys(stats) ==
    IF stats # PyNone /\ stats[1].namespaces # <<>>
    THEN stats[1].namespaces ELSE <<>>

\* a variant of DerivedNamespaces without the default-namespace fallback
DerivedNamespaces_NoFallback(stats) == StatsKeys(stats)

\* if source_stats.total_vector_count > 0 and not namespaces: namespaces = ['']
DerivedNamespaces(stats) ==
    IF stats[1].total_vector_count > 0 /\ StatsKeys(stats) = <<>>
    THEN <<"">> ELSE StatsKeys(stats)

ReadStats ==
    /\ pc = "stats"
    /\ \E f \in 0..1, stats \in StatsResponses(svc["src"]) :
         \E r \in {describe_index_stats(World("src"), stats, f)} :
             /\ MayFail(f)
             /\ Injected(f, r.n)
             /\ Commit(r.w)
             /\ source_stats' = r.ret
             /\ IF r.ret = PyNone
                THEN \* None has no attribute total_vector_count
                     /\ namespaces' = StatsKeys(r.ret)
                     /\ Uncaught
                     /\ UNCHANGED nsIdx
                ELSE /\ namespaces' = DerivedNamespaces(r.ret)
                     /\ nsIdx' = 1
                     /\ Goto("for_ns")
    /\ UNCHANGED <<canList, setup, pageIdx, id_page, vectors_map, batch_data,
                   total_migrated, caught, last, prev>>

\* a variant of Handle whose AttributeError clause does not break
Handle_NoBreak(place, class) ==
    /\ caught' = Append(caught, <<namespaces[nsIdx], place, class>>)
    /\ nsIdx' = nsIdx + 1
    /\ Goto("for_ns")

\* a variant of Handle that lets the exception through
Handle_Reraises(place, class) ==
    /\ caught' = Append(caught, <<namespaces[nsIdx], place, class>>)
    /\ Uncaught
    /\ UNCHANGED nsIdx

\* the except clauses of the transfer loop: AttributeError breaks out of the
\* loop, any other Exception goes on with the next namespace
Handle(place, class) ==
    /\ caught' = Append(caught, <<namespaces[nsIdx], place, class>>)
    /\ IF class = "AttributeError"
       THEN Report /\ UNCHANGED nsIdx
       ELSE nsIdx' = nsIdx + 1 /\ Goto("for_ns")

NextNamespace ==
    /\ pc = "for_ns"
    /\ IF nsIdx > Len(namespaces)
       THEN Report /\ UNCHANGED <<nsIdx, pageIdx, caught>>
       ELSE IF ~canList
       THEN Handle("list", "AttributeError") /\ UNCHANGED pageIdx
       ELSE pageIdx' = 0 /\ Goto("list") /\ UNCHANGED <<nsIdx, caught>>
    /\ UNCHANGED <<svc, index, calls, canList, setup, source_stats, namespaces,
                   id_page, vectors_map, batch_data, total_migrated, faults, last, prev>>

\* the generator source_index_obj.list(namespace=ns): one remote call per
\* page, the last page carrying no continuation
ListPage ==
    /\ pc = "list"
    /\ LET ns == namespaces[nsIdx]
           ids == ListedIds(svc["src"], ns)
       IN  IF pageIdx > 0 /\ pageIdx * PageSize >= Len(ids)
           THEN /\ nsIdx' = nsIdx + 1
                /\ Goto("for_ns")
                /\ UNCHANGED <<calls, pageIdx, id_page, caught, faults>>
           ELSE \E out \in {"ok"} \cup ExcClasses :
                  /\ MayRaise(out)
                  /\ Raised(out)
                  /\ calls' = Remote(World("src"), "list",
                                     [NoArgs EXCEPT !.ns = ns], out = "ok").calls
                  /\ IF out = "ok"
                     THEN /\ id_page' = Slice(ids, pageIdx * PageSize,
                                              (pageIdx + 1) * PageSize)
                          /\ pageIdx' = pageIdx + 1
                          /\ IF id_page' = <<>> THEN Goto("list") ELSE Goto("fetch")
                          /\ UNCHANGED <<nsIdx, caught>>
                     ELSE Handle("list", out) /\ UNCHANGED <<pageIdx, id_page>>
    /\ UNCHANGED <<svc, index, canList, setup, source_stats, namespaces,
                   vectors_map, batch_data, total_migrated, last, prev>>

\* fetch_resp = source_index_obj.fetch(id_page, namespace=ns);
\* vectors_map = fetch_resp.get('vectors', {})
Fetch ==
    /\ pc = "fetch"
    /\ \E out \in {"ok", "no vectors"} \cup ExcClasses :
         LET ns == namespaces[nsIdx]
         IN  /\ MayRaise(out)
             /\ Raised(out)
             /\ calls' = Remote(World("src"), "fetch",
                                [NoArgs EXCEPT !.ns = ns], out = "ok").calls
             /\ IF out \in ExcClasses
                THEN Handle("fetch", out) /\ UNCHANGED vectors_map
                ELSE /\ vectors_map' = IF out = "ok"
                                       THEN FetchResponse(svc["src"], id_page, ns)
                                       ELSE <<>>
                     /\ Goto("transform")
                     /\ UNCHANGED <<nsIdx, caught>>
    /\ UNCHANGED <<svc, index, canList, setup, source_stats, namespaces, pageIdx,
                   id_page, batch_data, total_migrated, last, prev>>

\* a variant of BatchRecord that drops the metadata of every record
BatchRecord_DropsMetadata(vec_data) ==
    [id |-> vec_data.id, values |-> vec_data.values, metadata |-> EmptyMap]

\* {"id": vec_id, "values": vec_data['values'],
\*  "metadata": vec_data.get('metadata', {})}
BatchRecord(vec_data) ==
    [id |-> vec_data.id, values |-> vec_data.values,
     metadata |-> IF vec_data.metadata = NoMeta THEN EmptyMap
                  ELSE vec_data.metadata]

Transform ==
    /\ pc = "transform"
    /\ \E out \in {"ok"} \cup ExcClasses :
         /\ out \in ExcClasses => vectors_map # <<>>
         /\ MayRaise(out)
         /\ Raised(out)
         /\ IF out = "ok"
            THEN /\ batch_data' = [k \in DOMAIN vectors_map |->
                                      BatchRecord(vectors_map[k])]
                 /\ IF batch_data' # <<>> THEN Goto("upsert") ELSE Goto("list")
                 /\ UNCHANGED <<nsIdx, caught>>
            ELSE Handle("transform", out) /\ UNCHANGED batch_data
    /\ UNCHANGED <<svc, index, calls, canList, setup, source_stats, namespaces,
                   pageIdx, id_page, vectors_map, total_migrated, last, prev>>

\* a variant of Upsert that counts the records the destination did not hold
Upsert_CountsNew ==
    /\ pc = "upsert"
    /\ \E f \in 0..2 :
         \E r \in {upsert_data(World("dst"), batch_data, namespaces[nsIdx],
                              Len(batch_data), f)} :
             MayFail(f) /\ Injected(f, r.n) /\ Commit(r.w)
    /\ total_migrated' = total_migrated +
          Cardinality({k \in DOMAIN batch_data :
                         \A d \in svc["dst"].data[namespaces[nsIdx]] :
                            d.id # batch_data[k].id})
    /\ Goto("list")
    /\ UNCHANGED <<canList, setup, source_stats, namespaces, nsIdx, pageIdx,
                   id_page, vectors_map, batch_data, caught, last, prev>>

\* a variant of Upsert that leaves the splitting to a batch size of 1
Upsert_Splits ==
    /\ pc = "upsert"
    /\ \E f \in 0..2 :
         \E r \in {upsert_data(World("dst"), batch_data, namespaces[nsIdx], 1, f)} :
             MayFail(f) /\ Injected(f, r.n) /\ Commit(r.w)
    /\ total_migrated' = total_migrated + Len(batch_data)
    /\ Goto("list")
    /\ UNCHANGED <<canList, setup, source_stats, namespaces, nsIdx, pageIdx,
                   id_page, vectors_map, batch_data, caught, last, prev>>

\* dest_mgr.upsert_data(batch_data, namespace=ns, batch_size=len(batch_data));
\* total_migrated += len(batch_data)
Upsert ==
    /\ pc = "upsert"
    /\ \E f \in 0..2 :
         \E r \in {upsert_data(World("dst"), batch_data, namespaces[nsIdx],
                              Len(batch_data), f)} :
             MayFail(f) /\ Injected(f, r.n) /\ Commit(r.w)
    /\ total_migrated' = total_migrated + Len(batch_data)
    /\ Goto("list")
    /\ UNCHANGED <<canList, setup, source_stats, namespaces, nsIdx, pageIdx,
                   id_page, vectors_map, batch_data, caught, last, prev>>

-----------------------------------------------------------------------------
(* The states migrate may start in *)

\* a namespace of the source is empty, holds one record, or is full
SourceData(dim) ==
    {[ns \in NsNames |-> {SrcRecord(dim, ns, i) : i \in 1..count[ns]}] :
        count \in [NsNames -> {0, 1, MaxIds}]}

\* the configurations the source index is taken from: each dimension and
\* each metric occurs
SourceConfigs ==
    {[dimension |-> 768, metric |-> "euclidean"],
     [dimension |-> DefaultDimension, metric |-> DefaultMetric]}

SourceIndexes ==
    {AbsentIndex} \cup
    UNION {{[exists |-> TRUE, dimension |-> c.dimension, metric |-> c.metric,
             ready |-> TRUE, data |-> data] : data \in SourceData(c.dimension)}
           : c \in SourceConfigs}

DestIndexes ==
    {AbsentIndex} \cup
    {[exists |-> TRUE, dimension |-> d, metric |-> DefaultMetric, ready |-> TRUE,
      data |-> EmptyData] : d \in Dims}

\* the arguments of a client operation that takes none
NoInput == [vectors |-> <<>>, namespace |-> None, batch_size |-> 0,
            dimension |-> 0, metric |-> None, replace_existing |-> FALSE]

\* no run of migrate came before this one
NoPrev == [ran |-> FALSE, total |-> 0, data |-> [ns \in NsNames |-> {}]]

NoLast == [n |-> 0, op |-> None, in |-> NoInput,
           failed |-> FALSE, raised |-> FALSE, ret |-> None]

Init ==
    /\ \E S \in SourceIndexes, D \in DestIndexes :
         svc = [c \in Creds |-> IF c = "src" THEN S ELSE D]
    /\ index = [c \in Creds |-> FALSE]
    /\ calls = <<>>
    /\ canList \in BOOLEAN
    /\ pc = "src_list"
    /\ exitCode = None
    /\ source_dim = None
    /\ source_metric = None
    /\ source_stats = PyNone
    /\ namespaces = <<>>
    /\ nsIdx = 0
    /\ pageIdx = 0
    /\ id_page = <<>>
    /\ vectors_map = <<>>
    /\ batch_data = <<>>
    /\ total_migrated = 0
    /\ caught = <<>>
    /\ faults = 0
    /\ last = NoLast
    /\ prev = NoPrev

\* migrate is run again, as a new process with new managers, after a run that
\* completed with no failed call and no handled exception; what that run
\* reported and left in the destination is kept for comparison
Rerun ==
    /\ pc = "done"
    /\ ~prev.ran
    /\ caught = <<>>
    /\ \A k \in DOMAIN calls : calls[k].ok
    /\ prev' = [ran |-> TRUE, total |-> total_migrated, data |-> svc["dst"].data]
    /\ index' = [c \in Creds |-> FALSE]
    /\ calls' = <<>>
    /\ pc' = "src_list"
    /\ exitCode' = None
    /\ source_dim' = None
    /\ source_metric' = None
    /\ source_stats' = PyNone
    /\ namespaces' = <<>>
    /\ nsIdx' = 0
    /\ pageIdx' = 0
    /\ id_page' = <<>>
    /\ vectors_map' = <<>>
    /\ batch_data' = <<>>
    /\ total_migrated' = 0
    /\ UNCHANGED <<svc, canList, caught, faults, last>>

Migrate ==
    \/ ConnectSource
    \/ DescribeSource
    \/ GetSourceIndex
    \/ ConnectDest
    \/ VerifyDest
    \/ CreateDest
    \/ WaitReady
    \/ ReadStats
    \/ NextNamespace
    \/ ListPage
    \/ Fetch
    \/ Transform
    \/ Upsert

Next == Migrate \/ Provision \/ Rerun

Spec == Init /\ [][Next]_vars

\* migrate is a sequential program that runs until it returns or the process
\* exits: while it has a step to take, it takes one; that a remote call fails
\* is never forced
Progress == Migrate /\ faults' = faults
FairSpec == Spec /\ WF_vars(Progress)

\* and the service finishes provisioning every index it was asked to create
LiveSpec == FairSpec /\ WF_vars(Provision)

-----------------------------------------------------------------------------
(* The operations of PineconeManager applied directly to one manager, the *)
(* one holding the "dst" credential.  The log is cleared as an operation  *)
(* starts: it holds the remote calls of the last operation.               *)

Client == [World("dst") EXCEPT !.calls = <<>>]

\* remote calls get_or_create_index issues at most: none with a cached
\* connection, one to look the index up, two more to create it
Connects == IF index["dst"] THEN 0 ELSE IF svc["dst"].exists THEN 1 ELSE 3

\* the vectors handed to upsert_data: count records of length dim
Vectors(dim, ns, count) ==
    [k \in 1..count |-> BatchRecord(SrcRecord(dim, ns, k))]

Texts == {<<>>, <<"t1">>, <<"t1", "t2">>}

\* the operation op, given input in and having ended as r, is recorded
Applied(op, in, r, f) ==
    /\ pc = "client"
    /\ last.n < MaxOps
    /\ MayFail(f)
    /\ Injected(f, r.n)
    /\ Commit(r.w)
    /\ last' = [n |-> last.n + 1, op |-> op, in |-> in,
                failed |-> \E k \in DOMAIN r.w.calls : ~r.w.calls[k].ok,
                raised |-> r.raised, ret |-> r.ret]
    /\ UNCHANGED <<canList, pc, exitCode, setup, loop, prev>>

ListIndexes ==
    \E f \in 0..1 : \E r \in {list_indexes(Client, f)} :
        Applied("list_indexes", NoInput, r, f)

CreateIndex ==
    \E f \in 0..3, d \in Dims, m \in Metrics, replace_existing \in BOOLEAN :
        \E r \in {create_index(Client, d, m, replace_existing, f)} :
            Applied("create_index",
                    [NoInput EXCEPT !.dimension = d, !.metric = m,
                                    !.replace_existing = replace_existing], r, f)

DeleteIndex ==
    \E f \in 0..2 : \E r \in {delete_index(Client, f)} :
        Applied("delete_index", NoInput, r, f)

GetOrCreateIndex ==
    \E f \in 0..Connects : \E r \in {get_or_create_index(Client, f)} :
        Applied("get_or_create_index", NoInput, r, f)

DescribeIndexStats ==
    \E f \in 0..Connects + 1, stats \in StatsResponses(svc["dst"]) :
        \E r \in {describe_index_stats(Client, stats, f)} :
            Applied("describe_index_stats", NoInput, r, f)

UpsertData ==
    \E d \in Dims, ns \in {"a"}, count \in 0..MaxIds, batch_size \in 1..MaxBatch :
      \E f \in 0..Connects + Ceil(count, batch_size), w \in {Client},
         vectors \in {Vectors(d, ns, count)} :
        \E r \in {upsert_data(w, vectors, ns, batch_size, f)} :
            Applied("upsert_data",
                    [NoInput EXCEPT !.vectors = vectors, !.namespace = ns,
                                    !.batch_size = batch_size], r, f)

QueryIndex ==
    \E f \in 0..Connects + 1 : \E r \in {query_index(Client, f)} :
        Applied("query_index", NoInput, r, f)

CreateEmbeddings ==
    \E f \in 0..1, texts \in Texts, has_client \in BOOLEAN :
        \E r \in {create_embeddings(Client, texts, has_client, f)} :
            Applied("create_embeddings", NoInput, r, f)

ClientInit ==
    /\ \E D \in DestIndexes :
         svc = [c \in Creds |-> IF c = "src" THEN AbsentIndex ELSE D]
    /\ index = [c \in Creds |-> FALSE]
    /\ calls = <<>>
    /\ canList = TRUE
    /\ pc = "client"
    /\ exitCode = None
    /\ source_dim = None
    /\ source_metric = None
    /\ source_stats = PyNone
    /\ namespaces = <<>>
    /\ nsIdx = 0
    /\ pageIdx = 0
    /\ id_page = <<>>
    /\ vectors_map = <<>>
    /\ batch_data = <<>>
    /\ total_migrated = 0
    /\ caught = <<>>
    /\ faults = 0
    /\ last = NoLast
    /\ prev = NoPrev

ClientNext ==
    \/ ListIndexes
    \/ CreateIndex
    \/ DeleteIndex
    \/ GetOrCreateIndex
    \/ DescribeIndexStats
    \/ UpsertData
    \/ QueryIndex
    \/ CreateEmbeddings
    \/ Provision

ClientSpec == ClientInit /\ [][ClientNext]_vars

-----------------------------------------------------------------------------
(* Properties of migrate *)

\* the positions in the log of the calls made with credential c to one of ops
CallsBy(c, ops) == {k \in DOMAIN calls : calls[k].cred = c /\ calls[k].op \in ops}

\* the calls of the transfer phase: list-ids and fetch on the source, upsert
\* on the destination
TransferOps == {"list", "fetch", "upsert"}
TransferCalls == {k \in DOMAIN calls : calls[k].op \in TransferOps}

Terminated == pc \in {"done", "exited", "uncaught"}
NoCallFailed == \A k \in DOMAIN calls : calls[k].ok

\* migrate created the destination index: it was absent beforehand
DestCreated == \E k \in CallsBy("dst", {"create_index"}) : calls[k].ok

\* the position of namespace ns in the list migrate transfers (the keys of a
\* mapping are distinct)
Pos(ns) == CHOOSE n \in DOMAIN namespaces : namespaces[n] = ns

\* the handled exception caught[k] is the source lacking the listing capability
CapabilityMissing(k) == caught[k][2] = "list" /\ caught[k][3] = "AttributeError"

\* the destination index was there before the run and its dimension is not
\* the source's
DimensionMismatch ==
    /\ svc["src"].exists
    /\ svc["dst"].exists
    /\ CallsBy("dst", {"create_index"}) = {}
    /\ svc["dst"].dimension # svc["src"].dimension

\* C1: whichever remote calls fail, a run with a pre-existing destination of
\* another dimension than the source's issues no list-ids, fetch or upsert
\* call, and when it has ended its exit code is 1.
C1_MismatchAborts ==
    DimensionMismatch =>
        /\ TransferCalls = {}
        /\ Terminated => exitCode = 1

\* C2: a run that created the destination, in which no remote call failed
\* and no exception was handled, ends with the destination holding the
\* source's dimension and metric and, for every namespace enumerated and every
\* source record in it, a record with the same id, the same vector and the
\* same metadata (the empty mapping where the source has none); the reported
\* total is the number of source records.
C2_FaithfulCopy ==
    (pc = "done" /\ NoCallFailed /\ caught = <<>> /\ DestCreated) =>
        /\ svc["dst"].exists
        /\ svc["dst"].dimension = svc["src"].dimension
        /\ svc["dst"].metric = svc["src"].metric
        /\ \A n \in DOMAIN namespaces :
             \A r \in svc["src"].data[namespaces[n]] :
                \E d \in svc["dst"].data[namespaces[n]] :
                    /\ d.id = r.id
                    /\ d.values = r.values
                    /\ d.metadata = (IF r.metadata = NoMeta THEN EmptyMap
                                     ELSE r.metadata)
        /\ total_migrated = SumCounts(svc["src"], NsNames)

\* a clean run that copied two full namespaces into a new destination, one
\* record of which had no metadata at the source
C2_Witness ==
    /\ pc = "done" /\ NoCallFailed /\ caught = <<>> /\ DestCreated
    /\ total_migrated = 2 * MaxIds
    /\ \E d \in svc["dst"].data["a"] : d.metadata = EmptyMap
    /\ \E d \in svc["dst"].data["a"] : d.metadata = SomeMeta

\* C3: when the run has ended, for every exception the transfer of a
\* namespace A raised for another reason than the missing listing capability,
\* every namespace after A in the list has been attempted (a list-ids call was
\* issued for it).
C3_LaterNamespacesAttempted ==
    (pc = "done" /\ canList) =>
        \A k \in DOMAIN caught :
            ~CapabilityMissing(k) =>
                \A n \in DOMAIN namespaces :
                    n > Pos(caught[k][1]) =>
                        \E j \in CallsBy("src", {"list"}) :
                            calls[j].ns = namespaces[n]

\* C4 (state part): without the listing capability no list-ids, fetch or
\* upsert call is ever issued; once a namespace A has hit the missing
\* capability the run is at the completion report with exit code 0, nothing
\* was handled after it, and no transfer call was made for a namespace after A.
C4_AbortedAt ==
    /\ ~canList => TransferCalls = {}
    /\ \A k \in DOMAIN caught :
         CapabilityMissing(k) =>
            /\ pc = "done"
            /\ exitCode = 0
            /\ k = Len(caught)
            /\ \A j \in TransferCalls :
                  \A n \in DOMAIN namespaces :
                     calls[j].ns = namespaces[n] => n <= Pos(caught[k][1])

\* C4 (step part): the step that hits the missing capability goes straight to
\* the completion report with the total accumulated so far, and the report is
\* final.
C4_AbortStep ==
    /\ (Len(caught') > Len(caught) /\ caught'[Len(caught')][2] = "list"
            /\ caught'[Len(caught')][3] = "AttributeError") =>
          (pc' = "done" /\ exitCode' = 0 /\ total_migrated' = total_migrated)
    /\ (pc = "done" /\ prev' = prev) =>
          UNCHANGED <<pc, exitCode, calls, total_migrated>>

\* C4: a missing listing capability aborts the whole transfer phase and the
\* run still reaches the completion report with the total accumulated so far.
C4_CapabilityMissingAborts == []C4_AbortedAt /\ [][C4_AbortStep]_vars

\* the listing failed for want of the capability on the first of two
\* namespaces, after one page of it had been copied
C4_Witness ==
    /\ pc = "done"
    /\ caught # <<>> /\ CapabilityMissing(Len(caught))
    /\ nsIdx < Len(namespaces)
    /\ total_migrated > 0

\* C5: once the source stats are read, the namespace list is the keys of the
\* per-namespace mapping in the mapping's order when there are any; [""] when
\* there are none and the total is positive; empty, with no transfer call
\* made, when there are none and the total is 0.
C5_NamespaceList ==
    source_stats # PyNone =>
        LET keys == source_stats[1].namespaces
            total == source_stats[1].total_vector_count
        IN  /\ keys # <<>> => namespaces = keys
            /\ (keys = <<>> /\ total > 0) => namespaces = <<"">>
            /\ (keys = <<>> /\ total = 0) =>
                  (namespaces = <<>> /\ TransferCalls = {})

\* the stats carried an empty mapping and a positive total, and the default
\* namespace was transferred
C5_Witness ==
    /\ source_stats # PyNone
    /\ source_stats[1].namespaces = <<>>
    /\ source_stats[1].total_vector_count > 0
    /\ namespaces = <<"">>
    /\ CallsBy("dst", {"upsert"}) # {}

-----------------------------------------------------------------------------
(* Properties of migrate's phases *)

DstCreates == CallsBy("dst", {"create_index"})

\* the call at position j is a describe-index call on the destination that
\* returned with the ready flag set
ReadyAt(j) ==
    /\ calls[j].cred = "dst" /\ calls[j].op = "describe_index"
    /\ calls[j].ok /\ calls[j].ready

\* C7 (state part): at most one create-index call is issued, with the
\* source's dimension and metric, and only for an absent destination; once it
\* is issued, every source-stats, list-ids, fetch and upsert call comes after
\* a describe-index call on the destination that returned ready; with no
\* create-index call there is no readiness poll (one describe-index call on
\* the destination at most, the dimension check).
C7_CreatedAndReady ==
    /\ Cardinality(DstCreates) <= 1
    /\ \A c \in DstCreates :
         /\ calls[c].dimension = svc["src"].dimension
         /\ calls[c].metric = svc["src"].metric
         /\ \A k \in DOMAIN calls :
              (k > c /\ calls[k].op \in {"describe_index_stats"} \cup TransferOps) =>
                 \E j \in c + 1..k - 1 : ReadyAt(j)
    /\ pc = "dst_create" => (~svc["dst"].exists /\ DstCreates = {})
    /\ pc = "dst_describe" => (svc["dst"].exists /\ DstCreates = {})
    /\ pc = "wait_ready" => DestCreated
    /\ DstCreates = {} =>
         /\ pc # "wait_ready"
         /\ Cardinality(CallsBy("dst", {"describe_index"})) <= 1

\* C7 (step part): the destination phase creates the index exactly when it is
\* absent, and leaves the readiness loop for the stats only on a ready answer.
C7_Branch ==
    /\ (pc = "dst_list" /\ pc' \notin {"dst_list", "uncaught"}) =>
          pc' = (IF svc["dst"].exists THEN "dst_describe" ELSE "dst_create")
    /\ (pc = "dst_create" /\ pc' = "wait_ready") =>
          (Cardinality(CallsBy("dst", {"create_index"})') = 1 /\ DestCreated')
    /\ (pc = "wait_ready" /\ pc' = "stats") =>
          (Len(calls') = Len(calls) + 1 /\ ReadyAt(Len(calls))')

\* C7: an absent destination is created once, with the source's dimension and
\* metric, and nothing is read or copied until it is seen ready; an existing
\* destination is neither created nor polled.
C7_CreateOnceThenWait == []C7_CreatedAndReady /\ [][C7_Branch]_vars

\* the destination was created, a poll saw it still provisioning, and the
\* copy began afterwards
C7_Witness ==
    /\ DestCreated
    /\ \E k \in CallsBy("dst", {"describe_index"}) : calls[k].ok /\ ~calls[k].ready
    /\ CallsBy("src", {"list"}) # {}

\* the phase a statement of migrate belongs to
Rank(l) ==
    CASE l \in {"src_list", "src_describe", "src_connect"} -> 1
      [] l \in {"dst_list", "dst_describe", "dst_create", "wait_ready"} -> 2
      [] l = "stats" -> 3
      [] l \in {"for_ns", "list", "fetch", "transform", "upsert"} -> 4
      [] l \in {"done", "exited", "uncaught"} -> 5

\* the source index is absent, or reading its descriptor failed
SourceUnusable ==
    \/ ~svc["src"].exists
    \/ \E k \in CallsBy("src", {"describe_index"}) : ~calls[k].ok

\* C8 (state part): with the source absent or its descriptor unreadable the
\* run never leaves the source phase but to end with exit code 1, and no call
\* is made with the destination credentials; every destination call comes
\* after a successful read of the source's descriptor, whose dimension and
\* metric migrate holds.
C8_SourceFirst ==
    /\ SourceUnusable =>
         /\ Rank(pc) \in {1, 5}
         /\ Terminated => exitCode = 1
         /\ CallsBy("dst", {calls[k].op : k \in DOMAIN calls}) = {}
    /\ \A k \in DOMAIN calls :
         calls[k].cred = "dst" =>
            \E j \in 1..k - 1 :
                /\ calls[j].cred = "src" /\ calls[j].op = "describe_index"
                /\ calls[j].ok
                /\ calls[j].dimension = source_dim
                /\ calls[j].metric = source_metric

\* C8: the phases are taken in order, never backwards, and the destination is
\* not touched before the source's dimension and metric are read.
C8_PhasesInOrder ==
    /\ []C8_SourceFirst
    /\ [][prev' = prev => Rank(pc') >= Rank(pc)]_vars

\* a run ended with exit code 1 on an unreadable source descriptor, and
\* another phase order is visible: the source index exists
C8_Witness ==
    /\ pc = "exited" /\ exitCode = 1
    /\ svc["src"].exists
    /\ \E k \in CallsBy("src", {"describe_index"}) : ~calls[k].ok

TransferPcs == {"for_ns", "list", "fetch", "transform", "upsert"}

\* C9 (step part): a step of the transfer phase stays in the transfer phase
\* with the exit status untouched, or reaches the completion report with
\* exit code 0.
C9_TransferStep ==
    pc \in TransferPcs =>
        \/ pc' \in TransferPcs /\ exitCode' = exitCode
        \/ pc' = "done" /\ exitCode' = 0

\* C9: once in the transfer phase the run reaches the completion report with
\* exit code 0, whatever list-ids, fetch and upsert calls fail on the way.
C9_TransferCompletes ==
    /\ (pc \in TransferPcs) ~> (pc = "done" /\ exitCode = 0)
    /\ [][C9_TransferStep]_vars

\* a run completed with exit code 0 although a namespace failed and an upsert
\* was refused
C9_Witness ==
    /\ pc = "done" /\ exitCode = 0
    /\ \E k \in DOMAIN caught : caught[k][3] = "Exception"
    /\ \E k \in CallsBy("dst", {"upsert"}) : ~calls[k].ok

-----------------------------------------------------------------------------
(* Properties of PineconeManager *)

\* the upsert calls of the last operation, in the order they were issued
UpsertChunks ==
    SelectSeq(calls, LAMBDA c : c.op = "upsert")

\* the records of the chunks, one chunk after the other
RECURSIVE Flatten(_)
Flatten(chunks) ==
    IF chunks = <<>> THEN <<>>
    ELSE Head(chunks).records \o Flatten(Tail(chunks))

\* C6: upsert_data of K >= 1 records with batch size B >= 1, no remote call
\* failing, issues ceil(K/B) upsert calls of at most B records each, whose
\* records in call order are the input list; with K = 0 it issues no call.
C6_Chunking ==
    last.op = "upsert_data" =>
        LET K == Len(last.in.vectors)
            B == last.in.batch_size
            U == UpsertChunks
        IN  /\ K = 0 => calls = <<>>
            /\ (K >= 1 /\ ~last.failed) =>
                  /\ Len(U) * B >= K
                  /\ (Len(U) - 1) * B < K
                  /\ \A k \in DOMAIN U :
                        /\ Len(U[k].records) <= B
                        /\ U[k].ns = last.in.namespace
                  /\ Flatten(U) = last.in.vectors

\* three records went out in chunks of two and one
C6_Witness ==
    /\ last.op = "upsert_data" /\ ~last.failed
    /\ Len(last.in.vectors) = 3 /\ last.in.batch_size = 2
    /\ Len(UpsertChunks) = 2
    /\ Len(UpsertChunks[2].records) = 1

\* the operations whose body is inside a try/except, and the others
Swallowing == {"describe_index_stats", "upsert_data", "query_index",
               "create_embeddings"}
Propagating == {"list_indexes", "create_index", "delete_index",
                "get_or_create_index"}

\* C10 as stated: whichever operation it is, a failing remote call does not
\* reach the caller as an exception.
C10_NeverRaises == last.failed => ~last.raised

\* C10: describe_index_stats, query_index, upsert_data and create_embeddings
\* never raise, and return None, None, None and the empty list when a remote
\* call they make fails; a failing remote call of list_indexes, create_index,
\* delete_index or get_or_create_index raises to the caller.
C10_ErrorPolicy ==
    /\ last.op \in Swallowing => ~last.raised
    /\ (last.op \in {"describe_index_stats", "query_index"} /\ last.failed) =>
          last.ret = PyNone
    /\ last.op = "upsert_data" => last.ret = None
    /\ (last.op = "create_embeddings" /\ last.failed) => last.ret = <<>>
    /\ (last.op \in Propagating /\ last.failed) => last.raised

\* the stats call failed and describe_index_stats returned None
C10_Witness ==
    /\ last.op = "describe_index_stats"
    /\ last.failed /\ ~last.raised
    /\ last.ret = PyNone
    /\ calls # <<>> /\ calls[Len(calls)].op = "describe_index_stats"

\* the step applies the client operation op, and no failure is injected into it
CleanStep(op) ==
    /\ last'.n = last.n + 1
    /\ last'.op = op
    /\ faults' = faults

\* the positions in log l of the calls of operation op
CallsOf(l, op) == {k \in DOMAIN l : l[k].op = op}

\* C11: create_index on a client whose index exists: with replace_existing
\* false it issues no delete-index and no create-index call and leaves the
\* index as it is; with replace_existing true it issues a delete-index call
\* and then a create-index call, and the index is afterwards there with the
\* requested dimension and metric, and empty.
C11_CreateOnExistingStep ==
    (CleanStep("create_index") /\ svc["dst"].exists) =>
        IF ~last'.in.replace_existing
        THEN /\ CallsOf(calls', "delete_index") = {}
             /\ CallsOf(calls', "create_index") = {}
             /\ svc' = svc
        ELSE /\ \E i \in CallsOf(calls', "delete_index") :
                   \E j \in CallsOf(calls', "create_index") : i < j
             /\ svc'["dst"].exists
             /\ svc'["dst"].dimension = last'.in.dimension
             /\ svc'["dst"].metric = last'.in.metric
             /\ svc'["dst"].data = EmptyData

C11_CreateOnExisting == [][C11_CreateOnExistingStep]_vars

\* C12: delete_index on an existing index leaves it absent from the service
\* and the cached connection cleared; on an absent index it issues no
\* delete-index call and changes nothing.
C12_DeleteStep ==
    CleanStep("delete_index") =>
        IF svc["dst"].exists
        THEN ~svc'["dst"].exists /\ ~index'["dst"]
        ELSE /\ CallsOf(calls', "delete_index") = {}
             /\ svc' = svc
             /\ index' = index

C12_DeleteIdempotent == [][C12_DeleteStep]_vars

\* C13 (step part): get_or_create_index with a cached connection issues no
\* remote call; without one, it connects to an index that is in the service's
\* list without creating anything, and creates an index that is not, with
\* dimension 1536 and metric cosine; either way the connection is cached.
C13_GetOrCreateStep ==
    CleanStep("get_or_create_index") =>
        /\ ~last'.raised
        /\ index'["dst"]
        /\ IF index["dst"]
           THEN calls' = <<>> /\ svc' = svc
           ELSE IF svc["dst"].exists
           THEN CallsOf(calls', "create_index") = {} /\ svc' = svc
           ELSE /\ Cardinality(CallsOf(calls', "create_index")) = 1
                /\ \A k \in CallsOf(calls', "create_index") :
                      calls'[k].dimension = 1536 /\ calls'[k].metric = "cosine"
                /\ svc'["dst"].exists
                /\ svc'["dst"].dimension = 1536
                /\ svc'["dst"].metric = "cosine"
                /\ svc'["dst"].data = EmptyData

\* C13: whatever operations came before, get_or_create_index returns the
\* cached connection without a remote call, or connects to the existing
\* index, or creates it with the defaults, and leaves the connection cached.
C13_GetOrCreate ==
    /\ []((last.op = "get_or_create_index" /\ ~last.raised) => index["dst"])
    /\ [][C13_GetOrCreateStep]_vars

\* a second operation found the connection the first one had cached
C13_Witness ==
    /\ last.op = "get_or_create_index" /\ last.n = 2
    /\ ~last.raised /\ ~last.failed
    /\ calls = <<>>
    /\ index["dst"]

-----------------------------------------------------------------------------
(* Properties of migrate's use of the client's sentinels *)

\* C14: when the source describe-stats call fails and describe_index_stats
\* returns None, migrate raises no exception, takes the namespace list to be
\* empty, and issues no list-ids, fetch or upsert call.
C14_StatsNullChecked ==
    (\E k \in CallsBy("src", {"describe_index_stats"}) : ~calls[k].ok) =>
        /\ pc # "uncaught"
        /\ namespaces = <<>>
        /\ TransferCalls = {}

\* the records the successful upsert calls of log l carried to the destination
RECURSIVE Delivered(_)
Delivered(l) ==
    IF l = <<>> THEN 0
    ELSE (IF Head(l).cred = "dst" /\ Head(l).op = "upsert" /\ Head(l).ok
          THEN Len(Head(l).records) ELSE 0) + Delivered(Tail(l))

\* C15: at the completion report the total of migrated vectors is the number
\* of records the upsert calls that succeeded delivered to the destination.
C15_TotalIsDelivered == pc = "done" => total_migrated = Delivered(calls)

-----------------------------------------------------------------------------
(* Properties of the transfer of one page *)

\* the calls a step appends to the log
NewCalls == SubSeq(calls', Len(calls) + 1, Len(calls'))

\* the namespace of the latest call of operation op with the source credentials
LatestNs(op) ==
    LET K == CallsBy("src", {op})
    IN  calls[CHOOSE k \in K : \A j \in K : j <= k].ns

\* C16 (step part): an empty page is not fetched and a fetch without records
\* is not upserted; the batch holds exactly the fetched records; the upsert
\* step issues one upsert call at most, and exactly one unless the lookup of
\* the destination connection failed, with the whole batch and the namespace
\* of the page; no other step issues an upsert call.
C16_PageStep ==
    /\ (pc = "list" /\ pageIdx' # pageIdx /\ id_page' = <<>>) => pc' = "list"
    /\ (pc = "transform" /\ vectors_map = <<>>) => pc' # "upsert"
    /\ (pc = "transform" /\ pc' = "upsert") =>
          /\ Len(batch_data') = Len(vectors_map)
          /\ \A k \in DOMAIN vectors_map :
                /\ batch_data'[k].id = vectors_map[k].id
                /\ batch_data'[k].values = vectors_map[k].values
    /\ pc # "upsert" => \A k \in DOMAIN NewCalls : NewCalls[k].op # "upsert"
    /\ pc = "upsert" =>
          LET U == SelectSeq(NewCalls, LAMBDA c : c.op = "upsert")
          IN  /\ Len(U) <= 1
              /\ (\A k \in DOMAIN NewCalls :
                     NewCalls[k].op # "upsert" => NewCalls[k].ok) => Len(U) = 1
              /\ \A k \in DOMAIN U :
                    /\ U[k].cred = "dst"
                    /\ U[k].records = batch_data
                    /\ U[k].ns = namespaces[nsIdx]

\* C16 (state part): the batch about to be upserted is not empty and comes
\* from a page listed and fetched in the namespace it is upserted to.
C16_SameNamespace ==
    pc = "upsert" =>
        /\ batch_data # <<>>
        /\ LatestNs("list") = namespaces[nsIdx]
        /\ LatestNs("fetch") = namespaces[nsIdx]

\* C16: every page with records goes to the destination in one upsert call
\* carrying the fetched records under the page's namespace; an empty page or
\* an empty fetch issues none.
C16_OneUpsertPerPage == []C16_SameNamespace /\ [][C16_PageStep]_vars

\* a page of PageSize records of namespace "a" went out in one upsert call
C16_Witness ==
    /\ pc = "list" /\ calls # <<>>
    /\ LET c == calls[Len(calls)]
       IN  /\ c.cred = "dst" /\ c.op = "upsert" /\ c.ok
           /\ Len(c.records) = PageSize
           /\ c.ns = "a"
           /\ c.records = batch_data

-----------------------------------------------------------------------------
(* Properties of a failing upsert_data *)

\* the records of the chunks of sequence U that were written
Written(U) == UNION {{U[k].records[j] : j \in DOMAIN U[k].records} :
                        k \in {i \in DOMAIN U : U[i].ok}}

\* C17 (step part): upsert_data never raises; its upsert calls are the chunks
\* of the input in order; a chunk that fails is the last call it makes; the
\* index afterwards holds what it held before with exactly the records of the
\* chunks that succeeded written over it.
C17_PartialStep ==
    (last'.n = last.n + 1 /\ last'.op = "upsert_data") =>
        LET U == SelectSeq(calls', LAMBDA c : c.op = "upsert")
            vectors == last'.in.vectors
            B == last'.in.batch_size
            ns == last'.in.namespace
            new == Written(U)
        IN  /\ ~last'.raised
            /\ \A k \in DOMAIN U :
                  /\ U[k].records =
                        SubSeq(vectors, (k - 1) * B + 1, Min(k * B, Len(vectors)))
                  /\ ~U[k].ok => (k = Len(U) /\ ~calls'[Len(calls')].ok
                                    /\ calls'[Len(calls')].op = "upsert")
            /\ svc'["dst"].data =
                  [n \in NsNames |->
                      IF n = ns
                      THEN {r \in svc["dst"].data[n] :
                               \A w \in new : w.id # r.id} \cup new
                      ELSE svc["dst"].data[n]]

\* C17: a failing chunk leaves the chunks before it written, is not retried,
\* stops the later chunks from being attempted, and does not reach the caller
\* as an exception.
C17_NoAtomicity == [][C17_PartialStep]_vars

\* of three chunks of one record the first was written, the second failed and
\* the third was not attempted
C17_Witness ==
    /\ last.op = "upsert_data" /\ ~last.raised
    /\ Len(last.in.vectors) = 3 /\ last.in.batch_size = 1
    /\ LET U == SelectSeq(calls, LAMBDA c : c.op = "upsert")
       IN  Len(U) = 2 /\ U[1].ok /\ ~U[2].ok
    /\ {r.id : r \in svc["dst"].data["a"]} = {1}

-----------------------------------------------------------------------------
(* Frame of migrate *)

\* C19: migrate issues no create-index, delete-index or upsert call with the
\* source credentials, and no step changes the source index: its existence,
\* dimension, metric and records stay what they were.
C19_SourceUnchanged ==
    /\ [](CallsBy("src", {"create_index", "delete_index", "upsert"}) = {})
    /\ [][svc'["src"] = svc["src"]]_vars

\* a run that copied records has ended, the source connection having been used
C19_Witness ==
    /\ pc = "done"
    /\ index["src"]
    /\ \E k \in CallsBy("dst", {"upsert"}) : calls[k].ok
    /\ \E k \in CallsBy("src", {"fetch"}) : calls[k].ok

-----------------------------------------------------------------------------
(* Termination of migrate *)

\* C18 (state part): while the destination has not reported ready, migrate is
\* not past the readiness loop and has issued no list-ids, fetch or upsert
\* call.
C18_NothingBeforeReady ==
    ~svc["dst"].ready =>
        /\ pc \notin {"stats", "done"} \cup TransferPcs
        /\ TransferCalls = {}

\* C18 (step part): a poll that does not see the destination ready stays in
\* the readiness loop, unless the describe-index call itself raises.
C18_PollStep ==
    (pc = "wait_ready" /\ ~svc["dst"].ready) => pc' \in {"wait_ready", "uncaught"}

\* C18: with finite listings and a destination that eventually reports ready,
\* every run of migrate ends, by an exit or by the completion report; and
\* while the destination does not report ready the readiness loop goes on and
\* no transfer call is issued.
C18_Terminates ==
    /\ <>Terminated
    /\ []C18_NothingBeforeReady
    /\ [][C18_PollStep]_vars

\* a run waited for a destination still provisioning, copied records and ended
C18_Witness ==
    /\ pc = "done" /\ exitCode = 0
    /\ \E k \in CallsBy("dst", {"describe_index"}) : calls[k].ok /\ ~calls[k].ready
    /\ total_migrated > 0

-----------------------------------------------------------------------------
(* Running migrate again *)

\* C20 (state part): a second run issues no create-index call; when it has
\* completed with no failed call and no handled exception, the destination's
\* records are in every namespace what the first run left, each source record
\* being there once with its vector and metadata, and the total is the one
\* the first run reported.
C20_SecondRun ==
    prev.ran =>
        /\ CallsBy("dst", {"create_index"}) = {}
        /\ (pc = "done" /\ NoCallFailed /\ caught = <<>>) =>
              /\ svc["dst"].data = prev.data
              /\ total_migrated = prev.total
              /\ \A ns \in NsNames :
                    \A r \in svc["src"].data[ns] :
                       LET same == {d \in svc["dst"].data[ns] : d.id = r.id}
                       IN  /\ Cardinality(same) = 1
                           /\ \A d \in same :
                                 /\ d.values = r.values
                                 /\ d.metadata = (IF r.metadata = NoMeta
                                                  THEN EmptyMap ELSE r.metadata)

\* C20: running migrate again on an unchanged source, with no remote failure,
\* creates nothing, leaves the destination's records as the first run left
\* them and reports the same total.
C20_RerunIdempotent == []C20_SecondRun /\ [][prev.ran => prev' = prev]_vars

\* a second run copied two full namespaces over what the first run had left
C20_Witness ==
    /\ prev.ran
    /\ pc = "done" /\ NoCallFailed /\ caught = <<>>
    /\ total_migrated = 2 * MaxIds
    /\ CallsBy("dst", {"upsert"}) # {}

====
